---- MODULE Spec2Model ----
(***************************************************************************)
(* A model of the seckey crate: SecKey<T> (src/src/seckey.rs), a value     *)
(* kept in a guarded memory block whose page permission is toggled by      *)
(* counted read/write guards, and Bytes (src/src/bytes.rs), a page-locked  *)
(* byte buffer with a constant-time equality.                              *)
(*                                                                         *)
(* The memsec primitives (malloc, free, mprotect, memzero, mlock, munlock, *)
(* memeq) are not part of the crate; they are modelled by their contract.  *)
(***************************************************************************)
EXTENDS Integers, Sequences, FiniteSets

\* ------------------------------------------------------------- bounds
\* Most guards alive at once on the one SecKey of the model.
MaxGuards == 3
\* T is modelled as [u8; ValLen].
ValLen == 2
\* Longest byte sequence given to Bytes or compared with one.
MaxLen == 2

\* The byte values of the model: zero and a non-zero one. The code copies,
\* zeroes and compares bytes for equality and never looks at a byte's value.
Byte == {0, 1}
Values == [1..ValLen -> Byte]
NoValue == <<>>

VARIABLES
    \* --- the caller's side of a constructor call
    arg,        \* the value the last constructor call was given (history)
    t,          \* the storage of the value handed to new / pointed to by from_raw
    tState,     \* "none" | "live" (still owned, destructor pending) | "forgotten"
    ret,        \* what the last constructor call returned
    \* --- SecKey<T>
    key,        \* "none" | "live" | "dropped"
    count,      \* SecKey.count
    prot,       \* permission of the block SecKey.ptr points to
    mem,        \* contents of the block SecKey.ptr points to
    valState,   \* the T inside the block: "none" | "live" | "dropped"
    blocks,     \* number of guarded blocks allocated and not freed
    guards,     \* the live guards, oldest first: "read" | "write"
    \* --- observations
    rawptr,     \* a raw pointer into the block was taken from a guard
    access,     \* the last access to the block and what came of it
    stored,     \* the value last stored by the caller (history)
    calls,      \* the primitive calls the last operation made, in order
    mid,        \* the states the last operation passed through between its
                \* statements: the counter and the permission at each point
    lastUnlock, \* the most recent unlock call: "none" | "read" | "write"
    crashed,    \* the process ended abnormally: SIGSEGV, or an abort
    \* --- Bytes
    bufs,       \* the Bytes values of the program, by slot
    locked,     \* the pages that are mlock'ed
    obs,        \* the last eq or Debug call on a Bytes and what it returned
    bcalls      \* the primitive calls the last Bytes operation made, in order

keyVars == <<arg, t, tState, ret, key, count, prot, mem, valState, blocks, guards,
             rawptr, access, stored, calls, mid, lastUnlock, crashed>>

bytesVars == <<bufs, locked, obs, bcalls>>

vars == <<keyVars, bytesVars>>

NoAccessRec == [op |-> "none", via |-> "none", ok |-> TRUE, val |-> NoValue, held |-> 0]

\* ------------------------------------------------- memsec primitives
\* memsec::memzero: every byte of the object becomes 0.
memzero(v) == [i \in DOMAIN v |-> 0]

\* What the hardware does with an access under a permission.
Readable(p) == p \in {"ReadOnly", "ReadWrite"}
Writable(p) == p = "ReadWrite"

\* ------------------------------------------------------ constructors
\* Mutant of from_raw: the block is left as malloc hands it out, read-write.
from_raw_unprotected(src, ok) ==
    IF ok
    THEN [some |-> TRUE, mem |-> src, prot |-> "ReadWrite", count |-> 0,
          calls |-> <<"malloc", "copy_nonoverlapping">>]
    ELSE [some |-> FALSE, mem |-> NoValue, prot |-> "none", count |-> 0,
          calls |-> <<"malloc">>]

\* SecKey::from_raw: the fields of the new container and the calls made.
\* src is the value behind the pointer, ok whether memsec::malloc succeeded.
from_raw(src, ok) ==
    IF ok
    THEN [some |-> TRUE, mem |-> src, prot |-> "NoAccess", count |-> 0,
          calls |-> <<"malloc", "copy_nonoverlapping", "mprotect:NoAccess">>]
    ELSE [some |-> FALSE, mem |-> NoValue, prot |-> "none", count |-> 0,
          calls |-> <<"malloc">>]

\* The container from_raw returned takes its place in the state.
Install(r) ==
    /\ key' = "live"
    /\ count' = r.count
    /\ prot' = r.prot
    /\ mem' = r.mem
    /\ valState' = "live"
    /\ blocks' = blocks + 1

\* Mutant of New: the argument is zeroed before it is copied into the block.
New_zero_first(v, ok) ==
    /\ key = "none" /\ ~crashed
    /\ arg' = v
    /\ LET r == from_raw(memzero(v), ok) IN
       IF r.some
       THEN /\ Install(r)
            /\ t' = memzero(v)
            /\ tState' = "forgotten"
            /\ ret' = [tag |-> "Ok", val |-> NoValue]
            /\ stored' = v
            /\ calls' = r.calls \o <<"memzero", "forget">>
       ELSE /\ t' = v
            /\ tState' = "live"
            /\ ret' = [tag |-> "Err", val |-> t']
            /\ calls' = r.calls
            /\ UNCHANGED <<key, count, prot, mem, valState, blocks, stored>>
    /\ mid' = <<>>
    /\ UNCHANGED <<guards, rawptr, access, crashed, lastUnlock, bytesVars>>

\* Mutant of New: the argument is zeroed whether or not the allocation succeeded.
New_zero_on_fail(v, ok) ==
    /\ key = "none" /\ ~crashed
    /\ arg' = v
    /\ LET r == from_raw(v, ok) IN
       IF r.some
       THEN /\ Install(r)
            /\ t' = memzero(v)
            /\ tState' = "forgotten"
            /\ ret' = [tag |-> "Ok", val |-> NoValue]
            /\ stored' = v
            /\ calls' = r.calls \o <<"memzero", "forget">>
       ELSE /\ t' = memzero(v)
            /\ tState' = "live"
            /\ ret' = [tag |-> "Err", val |-> t']
            /\ calls' = r.calls \o <<"memzero">>
            /\ UNCHANGED <<key, count, prot, mem, valState, blocks, stored>>
    /\ mid' = <<>>
    /\ UNCHANGED <<guards, rawptr, access, crashed, lastUnlock, bytesVars>>

\* Mutant of New: the argument is forgotten without being zeroed.
New_no_zero(v, ok) ==
    /\ key = "none" /\ ~crashed
    /\ arg' = v
    /\ LET r == from_raw(v, ok) IN
       IF r.some
       THEN /\ Install(r)
            /\ t' = v
            /\ tState' = "forgotten"
            /\ ret' = [tag |-> "Ok", val |-> NoValue]
            /\ stored' = v
            /\ calls' = r.calls \o <<"forget">>
       ELSE /\ t' = v
            /\ tState' = "live"
            /\ ret' = [tag |-> "Err", val |-> t']
            /\ calls' = r.calls
            /\ UNCHANGED <<key, count, prot, mem, valState, blocks, stored>>
    /\ mid' = <<>>
    /\ UNCHANGED <<guards, rawptr, access, crashed, lastUnlock, bytesVars>>

\* SecKey::new(t)
New(v, ok) ==
    /\ key = "none" /\ ~crashed
    /\ arg' = v
    /\ LET r == from_raw(v, ok) IN
       IF r.some
       THEN /\ Install(r)
            /\ t' = memzero(v)
            /\ tState' = "forgotten"
            /\ ret' = [tag |-> "Ok", val |-> NoValue]
            /\ stored' = v
            /\ calls' = r.calls \o <<"memzero", "forget">>
       ELSE /\ t' = v
            /\ tState' = "live"
            /\ ret' = [tag |-> "Err", val |-> t']
            /\ calls' = r.calls
            /\ UNCHANGED <<key, count, prot, mem, valState, blocks, stored>>
    /\ mid' = <<>>
    /\ UNCHANGED <<guards, rawptr, access, crashed, lastUnlock, bytesVars>>

\* Mutant of FromRaw: the pointee is zeroed as new zeroes its argument.
FromRaw_zeroes(v, ok) ==
    /\ key = "none" /\ ~crashed
    /\ arg' = v
    /\ LET r == from_raw(v, ok) IN
       /\ t' = IF r.some THEN memzero(v) ELSE v
       /\ tState' = "live"
       /\ calls' = r.calls
       /\ IF r.some
          THEN /\ Install(r)
               /\ ret' = [tag |-> "Some", val |-> NoValue]
               /\ stored' = v
          ELSE /\ ret' = [tag |-> "None", val |-> NoValue]
               /\ UNCHANGED <<key, count, prot, mem, valState, blocks, stored>>
    /\ mid' = <<>>
    /\ UNCHANGED <<guards, rawptr, access, crashed, lastUnlock, bytesVars>>

\* unsafe SecKey::from_raw(&v), called by the user
FromRaw(v, ok) ==
    /\ key = "none" /\ ~crashed
    /\ arg' = v
    /\ LET r == from_raw(v, ok) IN
       /\ t' = v
       /\ tState' = "live"
       /\ calls' = r.calls
       /\ IF r.some
          THEN /\ Install(r)
               /\ ret' = [tag |-> "Some", val |-> NoValue]
               /\ stored' = v
          ELSE /\ ret' = [tag |-> "None", val |-> NoValue]
               /\ UNCHANGED <<key, count, prot, mem, valState, blocks, stored>>
    /\ mid' = <<>>
    /\ UNCHANGED <<guards, rawptr, access, crashed, lastUnlock, bytesVars>>

\* ------------------------------------------------- unlock and lock
\* Mutant of read_unlock: the permission of write_unlock is set.
read_unlock_readwrite ==
    /\ count' = count + 1
    /\ mid' = <<[pt |-> "count.set", count |-> count + 1, prot |-> prot]>>
    /\ lastUnlock' = "read"
    /\ IF count = 0
       THEN prot' = "ReadWrite" /\ calls' = <<"mprotect:ReadWrite">>
       ELSE prot' = prot /\ calls' = <<>>

\* Mutant of read_unlock: mprotect is called whatever the counter was.
read_unlock_always_protects ==
    /\ count' = count + 1
    /\ mid' = <<[pt |-> "count.set", count |-> count + 1, prot |-> prot]>>
    /\ lastUnlock' = "read"
    /\ prot' = "ReadOnly" /\ calls' = <<"mprotect:ReadOnly">>

\* Mutant of read_unlock: the counter is stored only on the 0 -> 1 path.
read_unlock_no_count ==
    /\ count' = IF count = 0 THEN 1 ELSE count
    /\ mid' = <<[pt |-> "count.set", count |-> count', prot |-> prot]>>
    /\ lastUnlock' = "read"
    /\ IF count = 0
       THEN prot' = "ReadOnly" /\ calls' = <<"mprotect:ReadOnly">>
       ELSE prot' = prot /\ calls' = <<>>

read_unlock ==
    /\ count' = count + 1
    /\ mid' = <<[pt |-> "count.set", count |-> count + 1, prot |-> prot]>>
    /\ lastUnlock' = "read"
    /\ IF count = 0
       THEN prot' = "ReadOnly" /\ calls' = <<"mprotect:ReadOnly">>
       ELSE prot' = prot /\ calls' = <<>>

\* Mutant of write_unlock: the permission of read_unlock is set.
write_unlock_readonly ==
    /\ count' = count + 1
    /\ mid' = <<[pt |-> "count.set", count |-> count + 1, prot |-> prot]>>
    /\ lastUnlock' = "write"
    /\ IF count = 0
       THEN prot' = "ReadOnly" /\ calls' = <<"mprotect:ReadOnly">>
       ELSE prot' = prot /\ calls' = <<>>

write_unlock ==
    /\ count' = count + 1
    /\ mid' = <<[pt |-> "count.set", count |-> count + 1, prot |-> prot]>>
    /\ lastUnlock' = "write"
    /\ IF count = 0
       THEN prot' = "ReadWrite" /\ calls' = <<"mprotect:ReadWrite">>
       ELSE prot' = prot /\ calls' = <<>>

\* Mutant of lock: the test is made on the count after the decrement's
\* operand, "count == 0", so the last guard never revokes access.
lock_never ==
    /\ count' = count - 1
    /\ mid' = <<[pt |-> "count.set", count |-> count - 1, prot |-> prot]>>
    /\ IF count < 1
       THEN prot' = "NoAccess" /\ calls' = <<"mprotect:NoAccess">>
       ELSE prot' = prot /\ calls' = <<>>

\* Mutant of lock: access is revoked one guard early, "count <= 2".
lock_early ==
    /\ count' = count - 1
    /\ mid' = <<[pt |-> "count.set", count |-> count - 1, prot |-> prot]>>
    /\ IF count <= 2
       THEN prot' = "NoAccess" /\ calls' = <<"mprotect:NoAccess">>
       ELSE prot' = prot /\ calls' = <<>>

\* Mutant of lock: the permission is revoked first and the counter
\* decremented afterwards.
lock_protect_first ==
    /\ count' = count - 1
    /\ mid' = <<[pt |-> "mprotect", count |-> count,
                 prot |-> IF count <= 1 THEN "NoAccess" ELSE prot]>>
    /\ IF count <= 1
       THEN prot' = "NoAccess" /\ calls' = <<"mprotect:NoAccess">>
       ELSE prot' = prot /\ calls' = <<>>

\* count is a usize; lock runs only from a guard's drop, so count >= 1 here
\* in every state the model reaches.
lock ==
    /\ count' = count - 1
    /\ mid' = <<[pt |-> "count.set", count |-> count - 1, prot |-> prot]>>
    /\ IF count <= 1
       THEN prot' = "NoAccess" /\ calls' = <<"mprotect:NoAccess">>
       ELSE prot' = prot /\ calls' = <<>>

\* ----------------------------------------------------------- guards
\* SecKey::read(&self): a shared borrow, so no write guard (which holds
\* &mut SecKey) can be alive.
Read ==
    /\ key = "live" /\ ~crashed
    /\ Len(guards) < MaxGuards
    /\ \A i \in DOMAIN guards : guards[i] = "read"
    /\ read_unlock
    /\ guards' = Append(guards, "read")
    /\ UNCHANGED <<bytesVars, arg, t, tState, ret, key, mem, valState, blocks, rawptr, access,
                   stored, crashed>>

\* SecKey::write(&mut self): an exclusive borrow, so no guard is alive.
Write ==
    /\ key = "live" /\ ~crashed
    /\ Len(guards) < MaxGuards
    /\ guards = <<>>
    /\ write_unlock
    /\ guards' = Append(guards, "write")
    /\ UNCHANGED <<bytesVars, arg, t, tState, ret, key, mem, valState, blocks, rawptr, access,
                   stored, crashed>>

Remove(s, i) == SubSeq(s, 1, i - 1) \o SubSeq(s, i + 1, Len(s))

\* Drop for SecReadGuard / SecWriteGuard: guard i goes out of scope.
DropGuard(i) ==
    /\ key = "live" /\ ~crashed
    /\ i \in DOMAIN guards
    /\ lock
    /\ guards' = Remove(guards, i)
    /\ UNCHANGED <<lastUnlock, bytesVars, arg, t, tState, ret, key, mem, valState, blocks, rawptr, access,
                   stored, crashed>>

\* Deref for SecReadGuard / SecWriteGuard: the caller reads *guard.
Deref(i) ==
    /\ key = "live" /\ ~crashed
    /\ i \in DOMAIN guards
    /\ access' = [op |-> "read", via |-> guards[i], ok |-> Readable(prot),
                  val |-> IF Readable(prot) THEN mem ELSE NoValue,
                  held |-> Len(guards)]
    /\ crashed' = ~Readable(prot)
    /\ calls' = <<>>
    /\ mid' = <<>>
    /\ UNCHANGED lastUnlock
    /\ UNCHANGED <<bytesVars, arg, t, tState, ret, key, count, prot, mem, valState, blocks,
                   guards, rawptr, stored>>

\* DerefMut for SecWriteGuard: the caller stores v through *guard.
DerefMut(i, v) ==
    /\ key = "live" /\ ~crashed
    /\ i \in DOMAIN guards
    /\ guards[i] = "write"
    /\ access' = [op |-> "write", via |-> "write", ok |-> Writable(prot),
                  val |-> v, held |-> Len(guards)]
    /\ crashed' = ~Writable(prot)
    /\ mem' = IF Writable(prot) THEN v ELSE mem
    /\ stored' = IF Writable(prot) THEN v ELSE stored
    /\ calls' = <<>>
    /\ mid' = <<>>
    /\ UNCHANGED lastUnlock
    /\ UNCHANGED <<bytesVars, arg, t, tState, ret, key, count, prot, valState, blocks, guards,
                   rawptr>>

\* tests/seckey.rs: the caller keeps the raw pointer a guard derefs to.
Retain(i) ==
    /\ key = "live" /\ ~crashed
    /\ i \in DOMAIN guards
    /\ ~rawptr
    /\ rawptr' = TRUE
    /\ calls' = <<>>
    /\ mid' = <<>>
    /\ UNCHANGED lastUnlock
    /\ UNCHANGED <<bytesVars, arg, t, tState, ret, key, count, prot, mem, valState, blocks,
                   guards, access, stored, crashed>>

\* tests/seckey.rs: a read through the retained pointer.
RawRead ==
    /\ key = "live" /\ ~crashed
    /\ rawptr
    /\ access' = [op |-> "read", via |-> "raw", ok |-> Readable(prot),
                  val |-> IF Readable(prot) THEN mem ELSE NoValue,
                  held |-> Len(guards)]
    /\ crashed' = ~Readable(prot)
    /\ calls' = <<>>
    /\ mid' = <<>>
    /\ UNCHANGED lastUnlock
    /\ UNCHANGED <<bytesVars, arg, t, tState, ret, key, count, prot, mem, valState, blocks,
                   guards, rawptr, stored>>

\* tests/seckey.rs: a store through the retained pointer.
RawWrite(v) ==
    /\ key = "live" /\ ~crashed
    /\ rawptr
    /\ access' = [op |-> "write", via |-> "raw", ok |-> Writable(prot),
                  val |-> v, held |-> Len(guards)]
    /\ crashed' = ~Writable(prot)
    /\ mem' = IF Writable(prot) THEN v ELSE mem
    /\ stored' = IF Writable(prot) THEN v ELSE stored
    /\ calls' = <<>>
    /\ mid' = <<>>
    /\ UNCHANGED lastUnlock
    /\ UNCHANGED <<bytesVars, arg, t, tState, ret, key, count, prot, valState, blocks, guards,
                   rawptr>>

\* Mutant of DropKey: the block is not made accessible before the value's
\* destructor runs in it.
DropKey_no_unprotect ==
    /\ key = "live" /\ ~crashed
    /\ guards = <<>>
    /\ key' = "dropped"
    /\ prot' = prot
    /\ valState' = "dropped"
    /\ blocks' = blocks - 1
    /\ calls' = <<"drop_in_place", "free">>
    /\ mid' = <<[pt |-> "drop_in_place", count |-> count, prot |-> prot],
                [pt |-> "free", count |-> count, prot |-> prot]>>
    /\ UNCHANGED <<lastUnlock, bytesVars, arg, t, tState, ret, count, mem, guards, rawptr,
                   access, stored, crashed>>

\* Drop for SecKey: the guards borrow the key, so none is alive. mid holds
\* the state in which drop_in_place and then free are entered. The crate
\* makes no call that changes the block's contents.
DropKey ==
    /\ key = "live" /\ ~crashed
    /\ guards = <<>>
    /\ key' = "dropped"
    /\ prot' = "ReadWrite"
    /\ valState' = "dropped"
    /\ blocks' = blocks - 1
    /\ calls' = <<"mprotect:ReadWrite", "drop_in_place", "free">>
    /\ mid' = <<[pt |-> "drop_in_place", count |-> count, prot |-> "ReadWrite"],
                [pt |-> "free", count |-> count, prot |-> "ReadWrite"]>>
    /\ UNCHANGED <<lastUnlock, bytesVars, arg, t, tState, ret, count, mem, guards, rawptr,
                   access, stored, crashed>>

\* ---------------------------------------------- failing protect calls
\* memsec::mprotect as its caller sees it: the permission in force after the
\* call; ok is whether the operating system changed it.
mprotect(cur, want, ok) == IF ok THEN want ELSE cur

FailedCalls == {"mprotect:NoAccess:failed", "mprotect:ReadOnly:failed",
                "mprotect:ReadWrite:failed"}

\* A failed call either ends the process inside memsec (aborts) or comes
\* back to the crate, whose code has no branch on the outcome and goes on.
Aborted ==
    /\ crashed' = TRUE
    /\ mid' = <<>>
    /\ UNCHANGED <<arg, t, tState, ret, key, count, prot, mem, valState, blocks,
                   guards, rawptr, access, stored, lastUnlock, bytesVars>>

\* SecKey::new whose mprotect(NoAccess) in from_raw fails.
NewFailing(v, aborts) ==
    /\ key = "none" /\ ~crashed
    /\ calls' = <<"malloc", "copy_nonoverlapping", "mprotect:NoAccess:failed">>
                   \o (IF aborts THEN <<>> ELSE <<"memzero", "forget">>)
    /\ IF aborts
       THEN Aborted
       ELSE /\ arg' = v
            /\ key' = "live"
            /\ count' = 0
            /\ prot' = mprotect("ReadWrite", "NoAccess", FALSE)
            /\ mem' = v
            /\ valState' = "live"
            /\ blocks' = blocks + 1
            /\ t' = memzero(v)
            /\ tState' = "forgotten"
            /\ ret' = [tag |-> "Ok", val |-> NoValue]
            /\ stored' = v
            /\ mid' = <<>>
            /\ UNCHANGED <<guards, rawptr, access, crashed, lastUnlock, bytesVars>>

\* SecKey::read whose mprotect(ReadOnly) in read_unlock fails.
ReadFailing(aborts) ==
    /\ key = "live" /\ ~crashed
    /\ Len(guards) < MaxGuards
    /\ \A i \in DOMAIN guards : guards[i] = "read"
    /\ count = 0
    /\ calls' = <<"mprotect:ReadOnly:failed">>
    /\ IF aborts
       THEN Aborted
       ELSE /\ count' = count + 1
            /\ mid' = <<[pt |-> "count.set", count |-> count + 1, prot |-> prot]>>
            /\ lastUnlock' = "read"
            /\ prot' = mprotect(prot, "ReadOnly", FALSE)
            /\ guards' = Append(guards, "read")
            /\ UNCHANGED <<bytesVars, arg, t, tState, ret, key, mem, valState, blocks,
                           rawptr, access, stored, crashed>>

\* SecKey::write whose mprotect(ReadWrite) in write_unlock fails.
WriteFailing(aborts) ==
    /\ key = "live" /\ ~crashed
    /\ Len(guards) < MaxGuards
    /\ guards = <<>>
    /\ count = 0
    /\ calls' = <<"mprotect:ReadWrite:failed">>
    /\ IF aborts
       THEN Aborted
       ELSE /\ count' = count + 1
            /\ mid' = <<[pt |-> "count.set", count |-> count + 1, prot |-> prot]>>
            /\ lastUnlock' = "write"
            /\ prot' = mprotect(prot, "ReadWrite", FALSE)
            /\ guards' = Append(guards, "write")
            /\ UNCHANGED <<bytesVars, arg, t, tState, ret, key, mem, valState, blocks,
                           rawptr, access, stored, crashed>>

\* A guard's drop whose mprotect(NoAccess) in lock fails.
DropGuardFailing(i, aborts) ==
    /\ key = "live" /\ ~crashed
    /\ i \in DOMAIN guards
    /\ count <= 1
    /\ calls' = <<"mprotect:NoAccess:failed">>
    /\ IF aborts
       THEN Aborted
       ELSE /\ count' = count - 1
            /\ mid' = <<[pt |-> "count.set", count |-> count - 1, prot |-> prot]>>
            /\ prot' = mprotect(prot, "NoAccess", FALSE)
            /\ guards' = Remove(guards, i)
            /\ UNCHANGED <<lastUnlock, bytesVars, arg, t, tState, ret, key, mem,
                           valState, blocks, rawptr, access, stored, crashed>>

\* ------------------------------------------------------------ Bytes
ByteSeqs == UNION {[1..n -> Byte] : n \in 0..MaxLen}
Slots == {1, 2}
\* The pages the allocator places a Vec's heap block in; an empty Vec has
\* no heap block (page "none").
Pages == {"p", "q"}

NoBuf == [st |-> "none", src |-> <<>>, data |-> <<>>, page |-> "none"]
NoObs == [op |-> "none", lhs |-> <<>>, rhs |-> <<>>, res |-> FALSE, out |-> <<>>,
          work |-> 0]

\* memsec::mlock / munlock act on the pages of [ptr, ptr + len): a length of
\* 0 touches no page; locks do not nest, one munlock unlocks the page.
mlock(lk, page, len) == IF len = 0 THEN lk ELSE lk \cup {page}
munlock(lk, page, len) == IF len = 0 THEN lk ELSE lk \ {page}

\* memsec::memeq: every one of the n positions is compared, the differences
\* are accumulated, and the answer is taken from the accumulator at the end.
RECURSIVE memeq_fold(_, _, _, _)
memeq_fold(a, b, n, acc) ==
    IF n = 0 THEN acc ELSE memeq_fold(a, b, n - 1, acc \/ (a[n] # b[n]))

memeq(a, b, n) == ~memeq_fold(a, b, n, FALSE)

Min(x, y) == IF x <= y THEN x ELSE y

\* Mutant of eq: the lengths are not compared, the common prefix is.
eq_prefix(self, rhs) == memeq(self, rhs, Min(Len(self), Len(rhs)))

\* PartialEq<[u8]> for Bytes (PartialEq<A: AsRef<[u8]>> forwards to it).
eq(self, rhs) ==
    IF Len(self) = Len(rhs) THEN memeq(self, rhs, Len(self)) ELSE FALSE

\* The byte positions memeq visits: one per step of its loop over 1..n,
\* whatever the bytes are.
RECURSIVE memeq_steps(_, _, _)
memeq_steps(a, b, n) ==
    IF n = 0 THEN 0 ELSE 1 + memeq_steps(a, b, n - 1)

\* The first position at or after i where a and b differ, or n if none.
RECURSIVE FirstDiff(_, _, _, _)
FirstDiff(a, b, n, i) ==
    IF i >= n THEN n ELSE IF a[i] # b[i] THEN i ELSE FirstDiff(a, b, n, i + 1)

\* Mutant of eq_work: a loop that returns at the first mismatching byte.
eq_work_short_circuit(self, rhs) ==
    IF Len(self) = Len(rhs) THEN FirstDiff(self, rhs, Len(self), 1) ELSE 0

\* The byte positions eq examines: none when the lengths differ, else those
\* of the one memeq call over the whole length.
eq_work(self, rhs) ==
    IF Len(self) = Len(rhs) THEN memeq_steps(self, rhs, Len(self)) ELSE 0

HexDigit(b) == IF b = 0 THEN "0" ELSE "1"

\* Mutant of fmt: the bytes are printed, as a derived Debug would.
fmt_bytes(self) == [i \in 1..Len(self) |-> HexDigit(self[i])]

\* fmt::Debug for Bytes: repeat('*').take(len).collect::<String>()
fmt(self) == [i \in 1..Len(self) |-> "*"]

\* From<Vec<u8>> for Bytes: the Vec is locked and wrapped. The Vec's heap
\* block lies in page p unless the Vec is empty.
from_vec(s, src, vec, p) ==
    /\ bufs' = [bufs EXCEPT ![s] = [st |-> "live", src |-> src, data |-> vec,
                                    page |-> IF Len(vec) = 0 THEN "none" ELSE p]]
    /\ locked' = mlock(locked, p, Len(vec))
    /\ bcalls' = <<"mlock">>

\* Bytes::new(input) (From<&[u8]> forwards to it): input is copied to a Vec.
BytesNew(s, input, p) ==
    /\ bufs[s].st # "live"
    /\ from_vec(s, input, input, p)
    /\ obs' = NoObs
    /\ UNCHANGED keyVars

\* Bytes::empty()
BytesEmpty(s) ==
    /\ bufs[s].st # "live"
    /\ bufs' = [bufs EXCEPT ![s] = [st |-> "live", src |-> <<>>, data |-> <<>>,
                                    page |-> "none"]]
    /\ bcalls' = <<>>
    /\ obs' = NoObs
    /\ UNCHANGED <<locked, keyVars>>

\* Clone for Bytes: the Vec is cloned into page p and locked.
BytesClone(s, d, p) ==
    /\ bufs[s].st = "live"
    /\ bufs[d].st # "live"
    /\ from_vec(d, bufs[s].data, bufs[s].data, p)
    /\ obs' = NoObs
    /\ UNCHANGED keyVars

\* bytes == rhs
BytesEq(s, rhs) ==
    /\ bufs[s].st = "live"
    /\ obs' = [op |-> "eq", lhs |-> bufs[s].src, rhs |-> rhs,
               res |-> eq(bufs[s].data, rhs), out |-> <<>>,
               work |-> eq_work(bufs[s].data, rhs)]
    /\ bcalls' = <<>>
    /\ UNCHANGED <<bufs, locked, keyVars>>

\* format!("{:?}", bytes)
BytesFmt(s) ==
    /\ bufs[s].st = "live"
    /\ obs' = [op |-> "fmt", lhs |-> bufs[s].src, rhs |-> <<>>,
               res |-> FALSE, out |-> fmt(bufs[s].data), work |-> 0]
    /\ bcalls' = <<>>
    /\ UNCHANGED <<bufs, locked, keyVars>>

\* Mutant of BytesDrop: the Vec is freed with its pages still locked.
BytesDrop_no_unlock(s) ==
    /\ bufs[s].st = "live"
    /\ bufs' = [bufs EXCEPT ![s] = [st |-> "freed", src |-> <<>>,
                                    data |-> bufs[s].data, page |-> "none"]]
    /\ bcalls' = <<"dealloc">>
    /\ obs' = NoObs
    /\ UNCHANGED <<locked, keyVars>>

\* Drop for Bytes: munlock, then the Vec is dropped and its block freed.
\* A freed slot keeps what the block held when it went back to the allocator.
BytesDrop(s) ==
    /\ bufs[s].st = "live"
    /\ locked' = munlock(locked, bufs[s].page, Len(bufs[s].data))
    /\ bufs' = [bufs EXCEPT ![s] = [st |-> "freed", src |-> <<>>,
                                    data |-> bufs[s].data, page |-> "none"]]
    /\ bcalls' = <<"munlock", "dealloc">>
    /\ obs' = NoObs
    /\ UNCHANGED keyVars

\* ------------------------------------------------------ specification
Init ==
    /\ arg = NoValue
    /\ t = NoValue
    /\ tState = "none"
    /\ ret = [tag |-> "none", val |-> NoValue]
    /\ key = "none"
    /\ count = 0
    /\ prot = "none"
    /\ mem = NoValue
    /\ valState = "none"
    /\ blocks = 0
    /\ guards = <<>>
    /\ rawptr = FALSE
    /\ access = NoAccessRec
    /\ stored = NoValue
    /\ calls = <<>>
    /\ mid = <<>>
    /\ lastUnlock = "none"
    /\ crashed = FALSE
    /\ bufs = [s \in Slots |-> NoBuf]
    /\ locked = {}
    /\ obs = NoObs
    /\ bcalls = <<>>

Next ==
    \/ \E v \in Values, ok \in BOOLEAN : New(v, ok)
    \/ \E v \in Values, ok \in BOOLEAN : FromRaw(v, ok)
    \/ Read
    \/ Write
    \/ \E i \in 1..MaxGuards : DropGuard(i)
    \/ \E i \in 1..MaxGuards : Deref(i)
    \/ \E i \in 1..MaxGuards, v \in Values : DerefMut(i, v)
    \/ \E i \in 1..MaxGuards : Retain(i)
    \/ RawRead
    \/ \E v \in Values : RawWrite(v)
    \/ DropKey

Spec == Init /\ [][Next]_vars

\* The operations of Spec, and those in which a protect call fails.
NextFail ==
    \/ Next
    \/ \E v \in Values, aborts \in BOOLEAN : NewFailing(v, aborts)
    \/ \E aborts \in BOOLEAN : ReadFailing(aborts)
    \/ \E aborts \in BOOLEAN : WriteFailing(aborts)
    \/ \E i \in 1..MaxGuards, aborts \in BOOLEAN : DropGuardFailing(i, aborts)

SpecFail == Init /\ [][NextFail]_vars

NextBytes ==
    \/ \E s \in Slots, input \in ByteSeqs, p \in Pages : BytesNew(s, input, p)
    \/ \E s \in Slots : BytesEmpty(s)
    \/ \E s \in Slots, d \in Slots, p \in Pages : BytesClone(s, d, p)
    \/ \E s \in Slots, rhs \in ByteSeqs : BytesEq(s, rhs)
    \/ \E s \in Slots : BytesFmt(s)
    \/ \E s \in Slots : BytesDrop(s)

SpecBytes == Init /\ [][NextBytes]_vars

\* ============================================================ claims
AllRead == \A i \in DOMAIN guards : guards[i] = "read"
SomeWrite == \E i \in DOMAIN guards : guards[i] = "write"
NonZero(v) == \E i \in DOMAIN v : v[i] # 0

\* C1: while the SecKey lives, whatever reads, writes and guard drops (in any
\* order) have happened, the permission is NoAccess exactly when the borrow
\* counter is 0.
C1_NoAccessIffCountZero ==
    key = "live" => (prot = "NoAccess" <=> count = 0)

\* The last of several guards has just been dropped.
C1_Witness ==
    /\ key = "live" /\ count = 0 /\ prot = "NoAccess"
    /\ calls = <<"mprotect:NoAccess">>
    /\ access.held >= 2

\* C2: while the counter is > 0 the permission is ReadOnly if all live guards
\* are read guards and ReadWrite if a write guard is live.
C2_PermissionMatchesGuards ==
    (key = "live" /\ count > 0) =>
        /\ (AllRead => prot = "ReadOnly")
        /\ (SomeWrite => prot = "ReadWrite")

\* A write guard is live, taken after read guards came and went.
C2_Witness ==
    /\ key = "live" /\ count > 0 /\ SomeWrite /\ prot = "ReadWrite"
    /\ access.op = "read" /\ access.via = "read"

\* C3: with no guard live (after construction, and again after the last
\* guard is dropped) the block is inaccessible; an access through a live
\* guard succeeds; an access through a pointer kept from a dropped guard,
\* with no guard live, faults.
C3_AccessOnlyUnderGuard ==
    /\ (key = "live" /\ guards = <<>>) => prot = "NoAccess"
    /\ access.via \in {"read", "write"} => access.ok
    /\ (access.via = "raw" /\ access.held = 0) => (~access.ok /\ crashed)

\* tests/seckey.rs: the pointer kept from a dropped guard is used and faults.
C3_Witness ==
    /\ key = "live" /\ guards = <<>> /\ rawptr
    /\ access.op = "write" /\ access.via = "raw" /\ access.held = 0
    /\ ~access.ok /\ crashed

\* C4: dropping one of n >= 2 live read guards leaves the block readable;
\* dropping the last live read guard makes it NoAccess.
C4_LastReaderRevokes ==
    [][(key = "live" /\ AllRead /\ Len(guards') = Len(guards) - 1) =>
           IF Len(guards) >= 2 THEN Readable(prot') ELSE prot' = "NoAccess"]_vars

\* Two read guards were live, one has been dropped, the block is readable.
C4_Witness ==
    /\ key = "live" /\ guards = <<"read">> /\ prot = "ReadOnly"
    /\ access.op = "read" /\ access.held = 2 /\ access.ok

\* C5: the container holds, and a guard exposes, the value most recently
\* stored: the constructor's argument or the last value written through a
\* write guard.
C5_GuardExposesStored ==
    /\ key = "live" => mem = stored
    /\ (ret.tag = "Ok" /\ access.op = "none" /\ key = "live") => mem = arg
    /\ (access.op = "read" /\ access.ok) => access.val = stored

\* new(v) with v not all zero, then a read through a read guard yields v.
C5_Witness ==
    /\ ret.tag = "Ok" /\ NonZero(arg)
    /\ access.op = "read" /\ access.via = "read" /\ access.ok
    /\ access.val = arg

\* C6: when the allocation fails, new returns Err with the argument as it
\* was given (not zeroed, not forgotten or dropped) and from_raw returns
\* None; no container or block exists and no permission was changed.
C6_AllocFailureReturnsValue ==
    /\ ret.tag = "Err" =>
          /\ ret.val = arg /\ t = arg /\ tState = "live"
          /\ key = "none" /\ blocks = 0 /\ prot = "none"
          /\ calls = <<"malloc">>
    /\ ret.tag = "None" =>
          /\ t = arg /\ tState = "live"
          /\ key = "none" /\ blocks = 0 /\ prot = "none"
          /\ calls = <<"malloc">>

\* new failed on a value that is not all zero.
C6_Witness ==
    ret.tag = "Err" /\ NonZero(arg) /\ ret.val = arg

\* C7: when new succeeds the container has counter 0 and permission
\* NoAccess, the block holds the argument, and the argument's own storage
\* is zeroed and forgotten (no destructor runs on it): one copy is left.
C7_NewPostcondition ==
    [][(ret'.tag = "Ok" /\ ret.tag # "Ok") =>
          /\ key' = "live" /\ count' = 0 /\ prot' = "NoAccess"
          /\ mem' = arg' /\ valState' = "live"
          /\ t' = memzero(arg') /\ tState' = "forgotten"
          /\ blocks' = 1 /\ guards' = <<>>]_vars

\* new has just succeeded on a value that is not all zero.
C7_Witness ==
    /\ ret.tag = "Ok" /\ NonZero(arg)
    /\ calls = <<"malloc", "copy_nonoverlapping", "mprotect:NoAccess",
                 "memzero", "forget">>
    /\ mem = arg /\ t = memzero(arg) /\ count = 0 /\ prot = "NoAccess"

\* C8: from_raw leaves the value behind the pointer as it was, still the
\* caller's, and the new container holds an equal copy.
C8_FromRawLeavesSource ==
    /\ ret.tag = "Some" => (t = arg /\ tState = "live")
    /\ (ret.tag = "Some" /\ key = "live" /\ access.op = "none") =>
           (mem = arg /\ mem = t)

\* from_raw has just succeeded on a value that is not all zero.
C8_Witness ==
    /\ ret.tag = "Some" /\ NonZero(arg) /\ key = "live"
    /\ calls = <<"malloc", "copy_nonoverlapping", "mprotect:NoAccess">>
    /\ t = arg /\ mem = arg
\* C9: Bytes::new(a).eq(b) is true exactly when a and b have the same
\* length and the same byte at every position; it is false whenever the
\* lengths differ.
C9_EqIffSameBytes ==
    obs.op = "eq" =>
        /\ obs.res <=> /\ Len(obs.lhs) = Len(obs.rhs)
                       /\ \A i \in 1..Len(obs.lhs) : obs.lhs[i] = obs.rhs[i]
        /\ Len(obs.lhs) # Len(obs.rhs) => ~obs.res

\* A buffer was compared with a longer sequence that starts with its bytes.
C9_Witness ==
    /\ obs.op = "eq" /\ ~obs.res
    /\ Len(obs.lhs) > 0 /\ Len(obs.rhs) > Len(obs.lhs)
    /\ \A i \in 1..Len(obs.lhs) : obs.lhs[i] = obs.rhs[i]

\* C10: Debug-formatting a Bytes of length N yields exactly N placeholder
\* characters, whatever the bytes are: the output is the same for every
\* byte sequence of that length.
C10_DebugMasksBytes ==
    obs.op = "fmt" =>
        /\ Len(obs.out) = Len(obs.lhs)
        /\ \A i \in 1..Len(obs.out) : obs.out[i] = "*"
        /\ \A d \in ByteSeqs : Len(d) = Len(obs.lhs) => fmt(d) = obs.out

\* A buffer holding a non-zero byte was formatted.
C10_Witness ==
    /\ obs.op = "fmt" /\ Len(obs.lhs) = MaxLen /\ NonZero(obs.lhs)
    /\ Len(obs.out) = MaxLen

\* C11: a Bytes that holds bytes has its memory page-locked for as long as
\* it lives, whatever other buffers are created, cloned or destroyed.
C11_LockedWhileLive ==
    \A s \in Slots :
        (bufs[s].st = "live" /\ Len(bufs[s].data) > 0) => bufs[s].page \in locked

C13_DropOrder ==
    key = "dropped" =>
        /\ calls = <<"mprotect:ReadWrite", "drop_in_place", "free">>
        /\ \E i \in DOMAIN mid : mid[i].pt = "drop_in_place"
        /\ \A i \in DOMAIN mid : mid[i].pt = "drop_in_place" => mid[i].prot = "ReadWrite"
        /\ valState = "dropped"
        /\ blocks = 0
        /\ Cardinality({i \in DOMAIN calls : calls[i] = "free"}) = 1

\* A SecKey that was read and written through guards has been destroyed.
C13_Witness ==
    /\ key = "dropped" /\ valState = "dropped" /\ blocks = 0
    /\ access.op = "write" /\ access.ok /\ lastUnlock = "read"

C15_FailedCallIsFatal ==
    (\E i \in DOMAIN calls : calls[i] \in FailedCalls) => crashed

C17_NoAccessibleWindow ==
    \A i \in DOMAIN mid :
        mid[i].pt = "count.set" => ~(mid[i].count = 0 /\ Readable(mid[i].prot))

\* C17 amended: a release decrements the counter first and tests afterwards.
\* Its one intermediate state has the counter decremented and the permission
\* as before, so in the last guard's release the counter is 0 there while
\* the memory is still accessible; when the release returns the permission
\* is NoAccess if the counter is 0 and unchanged otherwise.
C17_DecrementThenProtect ==
    [][(key = "live" /\ Len(guards') = Len(guards) - 1) =>
          /\ Len(mid') = 1
          /\ mid'[1].count = count - 1
          /\ mid'[1].count = count'
          /\ mid'[1].prot = prot
          /\ count' = 0 => (Readable(mid'[1].prot) /\ prot' = "NoAccess")
          /\ count' > 0 => prot' = prot]_vars

\* The last guard has just been released: the counter was 0 with the block
\* still readable before the protect call, and the block is NoAccess now.
C17_Witness ==
    /\ key = "live" /\ count = 0 /\ prot = "NoAccess"
    /\ calls = <<"mprotect:NoAccess">>
    /\ Len(mid) = 1 /\ mid[1].count = 0 /\ Readable(mid[1].prot)

\* C18: while the counter is > 0 the permission is ReadWrite if the most
\* recent unlock call was a write-unlock and ReadOnly otherwise.
C18_PermissionFollowsLastUnlock ==
    (key = "live" /\ count > 0) =>
        prot = IF lastUnlock = "write" THEN "ReadWrite" ELSE "ReadOnly"

\* Read guards are live after a write guard was used and dropped.
C18_Witness ==
    /\ key = "live" /\ count >= 2 /\ lastUnlock = "read" /\ prot = "ReadOnly"
    /\ access.op = "write" /\ access.via = "write" /\ access.ok

\* C19: creating a guard adds exactly 1 to the counter and leaves the stored
\* value alone; it changes the permission only if the counter was 0, and
\* with the counter > 0 it makes no protect call. A guard drop that leaves
\* the counter > 0 leaves the permission alone and makes no protect call.
C19_GuardFrame ==
    [][key = "live" =>
          /\ Len(guards') = Len(guards) + 1 =>
                /\ count' = count + 1
                /\ mem' = mem
                /\ prot' # prot => count = 0
                /\ count > 0 => (prot' = prot /\ calls' = <<>>)
                /\ count = 0 => Len(calls') = 1
          /\ (Len(guards') = Len(guards) - 1 /\ count' > 0) =>
                (prot' = prot /\ calls' = <<>> /\ mem' = mem)]_vars

\* A third read guard has just been taken over two live ones.
C19_Witness ==
    /\ key = "live" /\ guards = <<"read", "read", "read">> /\ count = 3
    /\ calls = <<>> /\ Len(mid) = 1 /\ mid[1].count = 3
    /\ prot = "ReadOnly" /\ lastUnlock = "read"

\* C20: the counter equals the number of live guards; so every guard drop
\* finds the counter >= 1, the decrement never goes below 0, and the test
\* "counter before the decrement <= 1" is true exactly when the counter
\* after it is 0.
C20_CountIsLiveGuards ==
    /\ [](key = "live" => count = Len(guards))
    /\ [][(key = "live" /\ Len(guards') = Len(guards) - 1) =>
             /\ count >= 1
             /\ count' = count - 1
             /\ count' >= 0
             /\ (count <= 1) <=> (count' = 0)]_vars

\* Three guards were live and two of them have been dropped.
C20_Witness ==
    /\ key = "live" /\ access.held = 3 /\ Len(guards) = 1 /\ count = 1
    /\ Len(mid) = 1 /\ mid[1].count = 1 /\ calls = <<>>

====
